---- MODULE Spec2Model ----
(***************************************************************************)
(* OpenSBI generic platform glue of the RISC-V EDK2 platform package        *)
(* (Platform/RISC-V/PlatformPkg/Library/OpensbiPlatformLib/Platform.c).     *)
(*                                                                          *)
(* The boot hart runs fw_platform_init once; afterwards OpenSBI calls the   *)
(* entries of platform_ops in any order.  Pointers are small naturals with  *)
(* 0 for NULL; C arrays are functions over 0 .. size-1.                     *)
(***************************************************************************)
EXTENDS Integers, Sequences, FiniteSets, TLC

(***************************************************************************)
(* Bounds of the model.                                                     *)
(***************************************************************************)
\* capacity of a hart mask (128 in OpenSBI), scaled down
SBI_HARTMASK_MAX_BITS == 2
\* sizeof(platform.name) (64 in OpenSBI), scaled down
NameSize == 3
\* width of an address in bits; addresses are 0 .. 2^AddrBits - 1
AddrBits == 3
\* most entries of special_platforms[]
MaxPlats == 2

(***************************************************************************)
(* Program constants.                                                       *)
(***************************************************************************)
ROOT_EDK2_REGION == 0
ROOT_FW_REGION == 1
ROOT_ALL_REGION == 2
ROOT_END_REGION == 3
\* entries of U540_hart_index2id
U540_BOOTABLE_HART_COUNT == 4
U540_hart_index2id == [i \in 0 .. U540_BOOTABLE_HART_COUNT - 1 |-> i + 1]
\* SBI_DOMAIN_MEMREGION_{READABLE,WRITEABLE,EXECUTABLE} as a set of flags
SBI_DOMAIN_MEMREGION_EXECUTABLE == {"X"}
MEMREGION_RWX == {"R", "W", "X"}
SBI_PLATFORM_TLB_RANGE_FLUSH_LIMIT_DEFAULT == 4096
SBI_PLATFORM_DEFAULT_FEATURES == "default"
NULL == 0
\* the terminator of a C string
NUL == "NUL"

\* most cpu subnodes of /cpus: one more than the hart table holds
MaxCpuNodes == SBI_HARTMASK_MAX_BITS + 1
\* unsigned long is twice as wide as the UINT32 of a FixedPcdGet32 address
BITS_PER_LONG == 2 * AddrBits
riscv_xlen == BITS_PER_LONG
Pow2(n) == 2 ^ n
AddrSpace == Pow2(AddrBits)

Min(a, b) == IF a < b THEN a ELSE b

\* all sequences over S of length lo .. hi
SeqsOf(S, lo, hi) == UNION {[1 .. n -> S] : n \in lo .. hi}

(***************************************************************************)
(* Inputs: the flattened device tree, the build configuration and the      *)
(* board overrides linked into the image.                                   *)
(***************************************************************************)
\* compatible strings a node of the FDT may carry
Compats == {"sifive,fu540", "sifive,fu540g"}

\* tables of struct fdt_match the overrides point to; address 0 is NULL
\* (each table is the sequence of its .compatible strings, terminator left out)
MatchTableMem ==
    <<  <<"sifive,fu540">>,
        <<"sifive,fu540g">>,
        <<"sifive,fu540", "sifive,fu540g">>,
        <<"sifive,fu540g", "sifive,fu540">>  >>
MatchTablePtrs == {NULL} \cup DOMAIN MatchTableMem

\* the callbacks of struct platform_override
Callbacks == {"features", "early_init", "final_init", "early_exit", "final_exit",
              "fdt_fixup", "tlbr_flush_limit", "system_reset_check", "system_reset"}

\* a struct platform_override: its match table and the callbacks that are set
Overrides(capsets) == [match_table : MatchTablePtrs, caps : capsets]

\* a cpu subnode: what fdt_parse_hart_id makes of it
CpuNodes == {[rc |-> -1, hartid |-> 0]}
            \cup {[rc |-> 0, hartid |-> h] : h \in 0 .. SBI_HARTMASK_MAX_BITS}

\* model strings of the FDT root (the terminator left out), shorter than,
\* as long as and longer than the name buffer
ModelStrings == SeqsOf({"m"}, 0, NameSize + 1)
\* .name = "Generic", cut to the capacity of the scaled name buffer
GenericName == [i \in 0 .. NameSize - 1 |-> IF i < NameSize - 1 THEN "G" ELSE NUL]

Fdts(cpusets, models, compatsets) ==
    [has_root : BOOLEAN, has_cpus : BOOLEAN, has_model : BOOLEAN,
     model : models, compat : compatsets, cpus : cpusets]

RetCodes == {-1, 0, 1}
FeatureValues == {SBI_PLATFORM_DEFAULT_FEATURES, "override"}
FlushLimits == {0, SBI_PLATFORM_TLB_RANGE_FLUSH_LIMIT_DEFAULT, 8192}
ResetTypes == {0, 1}
ResetReasons == {2}

(***************************************************************************)
(* Library functions the platform code calls.                               *)
(***************************************************************************)
RECURSIVE log2roundup_from(_, _)
log2roundup_from(x, r) ==
    IF r < BITS_PER_LONG /\ ~(x <= Pow2(r)) THEN log2roundup_from(x, r + 1) ELSE r
\* sbi_math.h: the least ret < BITS_PER_LONG with x <= 1UL << ret
log2roundup(x) == log2roundup_from(x, 0)

\* addr & ~((1UL << order) - 1UL)
MaskLow(addr, order) == addr - (addr % Pow2(order))

\* sbi_strncpy: while (count-- && (*dest++ = *src++) != 0);  src is a C string
\* given without its terminator, dest an array over 0 .. size-1
sbi_strncpy(dest, src, count) ==
    [i \in DOMAIN dest |->
        IF i < count /\ i <= Len(src)
        THEN (IF i < Len(src) THEN src[i + 1] ELSE NUL)
        ELSE dest[i]]

NoMatch == [table |-> NULL, entry |-> 0]

RECURSIVE fdt_find_match_from(_, _, _)
fdt_find_match_from(tree, table, i) ==
    IF i > Len(MatchTableMem[table]) THEN [noff |-> -1, match |-> NoMatch]
    ELSE IF MatchTableMem[table][i] \in tree.compat
         THEN [noff |-> 0, match |-> [table |-> table, entry |-> i]]
         ELSE fdt_find_match_from(tree, table, i + 1)
\* fdt_find_match(fdt, -1, table, &match): the first entry of the table some
\* node of the tree is compatible with, or a negative offset
fdt_find_match(tree, table) == fdt_find_match_from(tree, table, 1)

(***************************************************************************)
(* State.                                                                   *)
(***************************************************************************)
VARIABLES
    \* inputs, fixed for a boot
    fdt, arg1, special_platforms, scratch,
    PcdBootableHartNumber, PcdFwStartAddress, PcdFwEndAddress,
    \* file-scope objects of Platform.c
    generic_plat, generic_plat_match, generic_hart_index2id, platform, root_memregs,
    \* words a store past the end of generic_hart_index2id has overwritten
    beyond_table,
    \* fw_platform_init: position, locals and returned value
    pc, hart_count, cpu_offset, fw_ret,
    \* the last operation of platform_ops: its name and arguments, the calls it
    \* made and its result
    op, calls, ret

inputs == <<fdt, arg1, special_platforms, scratch,
            PcdBootableHartNumber, PcdFwStartAddress, PcdFwEndAddress>>
statics == <<generic_plat, generic_plat_match, generic_hart_index2id, platform,
             root_memregs, beyond_table>>
locals == <<pc, hart_count, cpu_offset, fw_ret>>
last == <<op, calls, ret>>
vars == <<inputs, statics, locals, last>>

\* the override generic_plat points to (&special_platforms[pos] is pos + 1)
PlatAt(p) == special_platforms[p]
HasCallback(p, cb) == p # NULL /\ cb \in PlatAt(p).caps

(***************************************************************************)
(* fw_platform_lookup_special                                               *)
(***************************************************************************)
RECURSIVE lookup_special_from(_, _, _)
lookup_special_from(plats, tree, pos) ==
    IF ~(pos < Len(plats)) THEN [plat |-> NULL, match |-> NoMatch]
    ELSE LET plat == plats[pos + 1] IN
         IF plat.match_table = NULL THEN lookup_special_from(plats, tree, pos + 1)
         ELSE LET found == fdt_find_match(tree, plat.match_table) IN
              IF found.noff < 0 THEN lookup_special_from(plats, tree, pos + 1)
              ELSE [plat |-> pos + 1, match |-> found.match]

\* the loop without its break: a later match replaces an earlier one
RECURSIVE lookup_special_nobreak_from(_, _, _, _)
lookup_special_nobreak_from(plats, tree, pos, acc) ==
    IF ~(pos < Len(plats)) THEN acc
    ELSE LET plat == plats[pos + 1] IN
         IF plat.match_table = NULL
         THEN lookup_special_nobreak_from(plats, tree, pos + 1, acc)
         ELSE LET found == fdt_find_match(tree, plat.match_table) IN
              IF found.noff < 0
              THEN lookup_special_nobreak_from(plats, tree, pos + 1, acc)
              ELSE lookup_special_nobreak_from(plats, tree, pos + 1,
                        [plat |-> pos + 1, match |-> found.match])
lookup_special_nobreak(plats, tree) ==
    lookup_special_nobreak_from(plats, tree, 0, [plat |-> NULL, match |-> NoMatch])

fw_platform_lookup_special(plats, tree) == lookup_special_from(plats, tree, 0)

(***************************************************************************)
(* Initial states: the statics as their initialisers leave them, and the    *)
(* inputs of a boot.  One group of inputs is varied at a time around a      *)
(* default boot, so that the cases add up instead of multiplying.           *)
(***************************************************************************)
\* addresses the previous stage may pass the FDT at
FdtAddrs == {AddrSpace - 2, AddrSpace - 1}

\* the override of the default boot: a table and the two callbacks OpenSBI's
\* sifive_fu540 sets
DefaultOverride == [match_table |-> 1, caps |-> {"fdt_fixup", "tlbr_flush_limit"}]
\* callback sets with at most one callback set or at most one left out
CapsSamples == {c \in SUBSET Callbacks :
                    Cardinality(c) <= 1 \/ Cardinality(Callbacks \ c) <= 1}
OkNode(h) == [rc |-> 0, hartid |-> h]
DefaultFdt == [has_root |-> TRUE, has_cpus |-> TRUE, has_model |-> FALSE, model |-> <<>>,
               compat |-> {"sifive,fu540"}, cpus |-> <<OkNode(1), OkNode(0)>>]
DefaultScratch == [fw_start |-> 0, fw_size |-> AddrSpace \div 2]

NoOp == [name |-> "none", args |-> <<>>]

InitStatics ==
    /\ generic_plat = NULL
    /\ generic_plat_match = NoMatch
    /\ generic_hart_index2id = [i \in 0 .. SBI_HARTMASK_MAX_BITS - 1 |-> 0]
    /\ beyond_table = <<>>
    /\ platform = [name |-> GenericName,
                   features |-> SBI_PLATFORM_DEFAULT_FEATURES,
                   hart_count |-> SBI_HARTMASK_MAX_BITS,
                   hart_index2id |-> IF PcdBootableHartNumber = 4
                                     THEN "U540_hart_index2id"
                                     ELSE "generic_hart_index2id"]
    /\ root_memregs = [r \in ROOT_EDK2_REGION .. ROOT_END_REGION |->
                          [base |-> 0, order |-> 0, flags |-> {}]]
    /\ pc = "entry"
    /\ hart_count = 0
    /\ cpu_offset = 0
    /\ fw_ret = NULL
    /\ op = NoOp
    /\ calls = <<>>
    /\ ret = 0

DefaultPcds ==
    /\ PcdBootableHartNumber = U540_BOOTABLE_HART_COUNT + 1
    /\ PcdFwStartAddress = 0
    /\ PcdFwEndAddress = AddrSpace \div 2
    /\ scratch = DefaultScratch

\* the cpu subnodes of /cpus vary
InitWalk ==
    /\ fdt \in {[DefaultFdt EXCEPT !.cpus = c] : c \in SeqsOf(CpuNodes, 0, MaxCpuNodes)}
    /\ arg1 = AddrSpace - 1
    /\ special_platforms = <<DefaultOverride>>
    /\ DefaultPcds

\* the U540 build (PcdBootableHartNumber == 4) on trees whose cpu subnodes all
\* carry a usable hart id
InitU540 ==
    /\ fdt \in {[DefaultFdt EXCEPT !.cpus = c] :
                    c \in SeqsOf({OkNode(h) : h \in 0 .. SBI_HARTMASK_MAX_BITS - 1},
                                 0, MaxCpuNodes)}
    /\ arg1 = AddrSpace - 1
    /\ special_platforms = <<DefaultOverride>>
    /\ PcdBootableHartNumber = U540_BOOTABLE_HART_COUNT
    /\ PcdFwStartAddress = 0
    /\ PcdFwEndAddress = AddrSpace \div 2
    /\ scratch = DefaultScratch

\* the nodes and properties fw_platform_init looks up, and the FDT's address, vary
InitTree ==
    /\ fdt \in Fdts({DefaultFdt.cpus}, ModelStrings, {DefaultFdt.compat})
    /\ fdt.has_model \/ fdt.model = <<>>
    /\ arg1 \in FdtAddrs
    /\ special_platforms = <<DefaultOverride>>
    /\ DefaultPcds

\* the overrides linked into the image and what the tree is compatible with
\* vary: one override with any sample of callbacks and any table, or several
\* overrides with every callback set
InitPlats ==
    /\ fdt \in {[DefaultFdt EXCEPT !.compat = c] : c \in SUBSET Compats}
    /\ arg1 = AddrSpace - 1
    /\ special_platforms \in
            SeqsOf(Overrides(CapsSamples), 1, 1)
            \cup SeqsOf({o \in Overrides({Callbacks}) : o.match_table <= Cardinality(Compats)},
                        2, MaxPlats)
    /\ DefaultPcds

\* the firmware image's addresses, or the scratch area's, vary
InitImage ==
    /\ fdt = DefaultFdt
    /\ arg1 = AddrSpace - 1
    /\ special_platforms = <<DefaultOverride>>
    /\ PcdBootableHartNumber = U540_BOOTABLE_HART_COUNT + 1
    /\ \/ /\ PcdFwStartAddress \in 0 .. AddrSpace - 1
          /\ PcdFwEndAddress \in 0 .. AddrSpace - 1
          /\ PcdFwStartAddress < PcdFwEndAddress
          /\ scratch = DefaultScratch
       \/ /\ PcdFwStartAddress = 0
          /\ PcdFwEndAddress = AddrSpace \div 2
          /\ scratch = [fw_start |-> AddrSpace \div 2, fw_size |-> AddrSpace \div 2 - 1]

Init ==
    /\ InitWalk \/ InitU540 \/ InitTree \/ InitPlats \/ InitImage
    /\ InitStatics

(***************************************************************************)
(* fw_platform_init                                                         *)
(***************************************************************************)
\* lines 82-86: the root node is looked up, then the special platforms
FwInitRoot ==
    /\ pc = "entry"
    /\ IF ~fdt.has_root
       THEN /\ pc' = "fail"
            /\ UNCHANGED <<generic_plat, generic_plat_match>>
       ELSE LET found == fw_platform_lookup_special(special_platforms, fdt) IN
            /\ pc' = "model"
            /\ generic_plat' = IF found.plat # NULL THEN found.plat ELSE generic_plat
            /\ generic_plat_match' =
                    IF found.plat # NULL THEN found.match ELSE generic_plat_match
    /\ UNCHANGED <<inputs, generic_hart_index2id, platform, root_memregs, beyond_table,
                   hart_count, cpu_offset, fw_ret, last>>

\* lines 88-97 without the goto fail of line 97
FwInitModel_NoCpusCheck ==
    /\ pc = "model"
    /\ \E f \in FeatureValues :
        platform' = [platform EXCEPT
            !.name = IF fdt.has_model
                     THEN sbi_strncpy(platform.name, fdt.model, NameSize)
                     ELSE @,
            !.features = IF HasCallback(generic_plat, "features") THEN f ELSE @]
    /\ pc' = "walk"
    /\ UNCHANGED <<inputs, generic_plat, generic_plat_match, generic_hart_index2id,
                   root_memregs, beyond_table, hart_count, cpu_offset, fw_ret,
                   last>>

\* lines 88-97: the model string and the override's features are taken over,
\* then /cpus is looked up
FwInitModel ==
    /\ pc = "model"
    /\ \E f \in FeatureValues :
        platform' = [platform EXCEPT
            !.name = IF fdt.has_model
                     THEN sbi_strncpy(platform.name, fdt.model, NameSize)
                     ELSE @,
            !.features = IF HasCallback(generic_plat, "features") THEN f ELSE @]
    /\ pc' = IF fdt.has_cpus THEN "walk" ELSE "fail"
    /\ UNCHANGED <<inputs, generic_plat, generic_plat_match, generic_hart_index2id,
                   root_memregs, beyond_table, hart_count, cpu_offset, fw_ret,
                   last>>

\* lines 99-108: one turn of fdt_for_each_subnode.  hart_count is not tested
\* against the size of the array: a store at an index past its end is kept in
\* beyond_table, since which object lies there is the linker's choice and not
\* this file's
FwInitWalk ==
    /\ pc = "walk"
    /\ cpu_offset < Len(fdt.cpus)
    /\ LET node == fdt.cpus[cpu_offset + 1] IN
       IF node.rc # 0 \/ SBI_HARTMASK_MAX_BITS <= node.hartid
       THEN UNCHANGED <<generic_hart_index2id, beyond_table, hart_count>>
       ELSE /\ IF hart_count < SBI_HARTMASK_MAX_BITS
               THEN /\ generic_hart_index2id' =
                           [generic_hart_index2id EXCEPT ![hart_count] = node.hartid]
                    /\ UNCHANGED beyond_table
               ELSE /\ beyond_table' = Append(beyond_table,
                           [index |-> hart_count, value |-> node.hartid])
                    /\ UNCHANGED generic_hart_index2id
            /\ hart_count' = hart_count + 1
    /\ cpu_offset' = cpu_offset + 1
    /\ UNCHANGED <<inputs, generic_plat, generic_plat_match, platform, root_memregs,
                   pc, fw_ret, last>>

\* lines 110-113: the count is published and the FDT pointer returned
FwInitReturn ==
    /\ pc = "walk"
    /\ ~(cpu_offset < Len(fdt.cpus))
    /\ platform' = [platform EXCEPT !.hart_count = hart_count]
    /\ fw_ret' = arg1
    /\ pc' = "returned"
    /\ UNCHANGED <<inputs, generic_plat, generic_plat_match, generic_hart_index2id,
                   root_memregs, beyond_table, hart_count, cpu_offset, last>>

\* lines 115-117: fail: while (1) wfi();
FwInitFail ==
    /\ pc = "fail"
    /\ UNCHANGED vars

(***************************************************************************)
(* The handlers of platform_ops defined in Platform.c.  Each runs to its    *)
(* return in one step; calls lists, in order, the override callbacks and    *)
(* library functions it called (the scratch getters, which only read, are   *)
(* left out), ret is what it returned (0 for void).  The                    *)
(* entries of platform_ops that point straight at fdt_* drivers run no      *)
(* code of this file and are left out.                                      *)
(***************************************************************************)
B2N(b) == IF b THEN 1 ELSE 0
\* a call of callback cb of the override at p, with the match it was handed
PlatCall(p, cb, match, args, rc) ==
    [plat |-> p, fn |-> cb, match |-> match, args |-> args, rc |-> rc]
\* a call of a library function
LibCall(fn, args, rc) ==
    [plat |-> NULL, fn |-> fn, match |-> NoMatch, args |-> args, rc |-> rc]
Result(c, r) == [calls |-> c, ret |-> r]

\* lines 120-134 without the test of cold_boot at line 130
generic_early_init_always_reset(cold_boot, rc_plat, rc_reset) ==
    LET has == HasCallback(generic_plat, "early_init")
        c1 == IF has
              THEN <<PlatCall(generic_plat, "early_init", generic_plat_match,
                              <<B2N(cold_boot)>>, rc_plat)>>
              ELSE <<>>
    IN  IF has /\ rc_plat # 0 THEN Result(c1, rc_plat)
        ELSE Result(c1 \o <<LibCall("fdt_reset_init", <<>>, rc_reset)>>, rc_reset)

\* lines 120-134; rc_plat and rc_reset are what early_init and fdt_reset_init
\* return when called
generic_early_init(cold_boot, rc_plat, rc_reset) ==
    LET has == HasCallback(generic_plat, "early_init")
        c1 == IF has
              THEN <<PlatCall(generic_plat, "early_init", generic_plat_match,
                              <<B2N(cold_boot)>>, rc_plat)>>
              ELSE <<>>
    IN  IF has /\ rc_plat # 0 THEN Result(c1, rc_plat)
        ELSE IF ~cold_boot THEN Result(c1, 0)
        ELSE Result(c1 \o <<LibCall("fdt_reset_init", <<>>, rc_reset)>>, rc_reset)

\* lines 136-172 with the result of fdt_fixup dropped (no test at line 159)
generic_final_init_fixup_unchecked(cold_boot, rc_final, rc_fixup) ==
    LET has_final == HasCallback(generic_plat, "final_init")
        has_fixup == HasCallback(generic_plat, "fdt_fixup")
        c1 == IF has_final
              THEN <<PlatCall(generic_plat, "final_init", generic_plat_match,
                              <<B2N(cold_boot)>>, rc_final)>>
              ELSE <<>>
        c2 == c1 \o <<LibCall("fdt_cpu_fixup", <<fw_ret>>, 0),
                      LibCall("fdt_fixups", <<fw_ret>>, 0),
                      LibCall("fdt_domain_fixup", <<fw_ret>>, 0)>>
        c3 == IF has_fixup
              THEN c2 \o <<PlatCall(generic_plat, "fdt_fixup", generic_plat_match,
                                    <<fw_ret>>, rc_fixup)>>
              ELSE c2
    IN  IF has_final /\ rc_final # 0 THEN Result(c1, rc_final)
        ELSE IF ~cold_boot THEN Result(c1, 0)
        ELSE Result(c3 \o <<LibCall("pmp_set",
                                    <<0, scratch.fw_start, log2roundup(scratch.fw_size)>>,
                                    0)>>, 0)

\* lines 136-172; rc_final and rc_fixup are what final_init and fdt_fixup
\* return when called; the FDT is the one fw_platform_init returned
generic_final_init(cold_boot, rc_final, rc_fixup) ==
    LET has_final == HasCallback(generic_plat, "final_init")
        has_fixup == HasCallback(generic_plat, "fdt_fixup")
        c1 == IF has_final
              THEN <<PlatCall(generic_plat, "final_init", generic_plat_match,
                              <<B2N(cold_boot)>>, rc_final)>>
              ELSE <<>>
        c2 == c1 \o <<LibCall("fdt_cpu_fixup", <<fw_ret>>, 0),
                      LibCall("fdt_fixups", <<fw_ret>>, 0),
                      LibCall("fdt_domain_fixup", <<fw_ret>>, 0)>>
        c3 == IF has_fixup
              THEN c2 \o <<PlatCall(generic_plat, "fdt_fixup", generic_plat_match,
                                    <<fw_ret>>, rc_fixup)>>
              ELSE c2
    IN  IF has_final /\ rc_final # 0 THEN Result(c1, rc_final)
        ELSE IF ~cold_boot THEN Result(c1, 0)
        ELSE IF has_fixup /\ rc_fixup # 0 THEN Result(c3, rc_fixup)
        ELSE Result(c3 \o <<LibCall("pmp_set",
                                    <<0, scratch.fw_start, log2roundup(scratch.fw_size)>>,
                                    0)>>, 0)

\* lines 174-178
generic_early_exit ==
    IF HasCallback(generic_plat, "early_exit")
    THEN Result(<<PlatCall(generic_plat, "early_exit", generic_plat_match, <<>>, 0)>>, 0)
    ELSE Result(<<>>, 0)

\* lines 180-184
generic_final_exit ==
    IF HasCallback(generic_plat, "final_exit")
    THEN Result(<<PlatCall(generic_plat, "final_exit", generic_plat_match, <<>>, 0)>>, 0)
    ELSE Result(<<>>, 0)

\* lines 186-189
generic_domains_init(rc) ==
    Result(<<LibCall("fdt_domains_populate", <<fw_ret>>, rc)>>, rc)

\* lines 191-196; limit is what the override's tlbr_flush_limit returns
generic_tlbr_flush_limit(limit) ==
    IF HasCallback(generic_plat, "tlbr_flush_limit")
    THEN Result(<<PlatCall(generic_plat, "tlbr_flush_limit", generic_plat_match,
                           <<>>, limit)>>, limit)
    ELSE Result(<<>>, SBI_PLATFORM_TLB_RANGE_FLUSH_LIMIT_DEFAULT)

\* lines 198-205; rc is what the function called returns
generic_system_reset_check(reset_type, reset_reason, rc) ==
    IF HasCallback(generic_plat, "system_reset_check")
    THEN Result(<<PlatCall(generic_plat, "system_reset_check", generic_plat_match,
                           <<reset_type, reset_reason>>, rc)>>, rc)
    ELSE Result(<<LibCall("fdt_system_reset_check", <<reset_type, reset_reason>>, rc)>>,
                rc)

\* lines 207-216 without the return of line 212
generic_system_reset_fallthrough(reset_type, reset_reason) ==
    LET c1 == IF HasCallback(generic_plat, "system_reset")
              THEN <<PlatCall(generic_plat, "system_reset", generic_plat_match,
                              <<reset_type, reset_reason>>, 0)>>
              ELSE <<>>
    IN  Result(c1 \o <<LibCall("fdt_system_reset", <<reset_type, reset_reason>>, 0)>>, 0)

\* lines 207-216
generic_system_reset(reset_type, reset_reason) ==
    IF HasCallback(generic_plat, "system_reset")
    THEN Result(<<PlatCall(generic_plat, "system_reset", generic_plat_match,
                           <<reset_type, reset_reason>>, 0)>>, 0)
    ELSE Result(<<LibCall("fdt_system_reset", <<reset_type, reset_reason>>, 0)>>, 0)

\* FixedPcdGet32(PcdFwEndAddress) - FixedPcdGet32(PcdFwStartAddress), in UINT32
FwImageSize == (PcdFwEndAddress - PcdFwStartAddress) % AddrSpace

\* lines 224-251: the table after the assignments, made in the order written
get_mem_regions(regs) ==
    LET r1 == [regs EXCEPT ![ROOT_FW_REGION].order = log2roundup(FwImageSize)]
        r2 == [r1 EXCEPT ![ROOT_FW_REGION].base =
                            MaskLow(PcdFwStartAddress, r1[0].order)]
        r3 == [r2 EXCEPT ![ROOT_FW_REGION].flags = {}]
        r4 == [r3 EXCEPT ![ROOT_EDK2_REGION].order = log2roundup(FwImageSize)]
        r5 == [r4 EXCEPT ![ROOT_EDK2_REGION].base =
                            MaskLow(PcdFwStartAddress, r4[0].order)]
        r6 == [r5 EXCEPT ![ROOT_EDK2_REGION].flags = SBI_DOMAIN_MEMREGION_EXECUTABLE]
        r7 == [r6 EXCEPT ![ROOT_ALL_REGION] =
                            [order |-> riscv_xlen, base |-> 0, flags |-> MEMREGION_RWX]]
    IN  [r7 EXCEPT ![ROOT_END_REGION].order = 0]

\* the handler returned result and left the statics alone
Returns(name, args, result) ==
    /\ op' = [name |-> name, args |-> args]
    /\ calls' = result.calls
    /\ ret' = result.ret
    /\ UNCHANGED <<inputs, statics, locals>>

EarlyInit ==
    /\ pc = "returned"
    /\ \E cold_boot \in BOOLEAN, rc_plat \in RetCodes, rc_reset \in RetCodes :
        Returns("early_init", <<B2N(cold_boot)>>,
                generic_early_init(cold_boot, rc_plat, rc_reset))

FinalInit ==
    /\ pc = "returned"
    /\ \E cold_boot \in BOOLEAN, rc_final \in RetCodes, rc_fixup \in RetCodes :
        Returns("final_init", <<B2N(cold_boot)>>,
                generic_final_init(cold_boot, rc_final, rc_fixup))

EarlyExit ==
    /\ pc = "returned"
    /\ Returns("early_exit", <<>>, generic_early_exit)

FinalExit ==
    /\ pc = "returned"
    /\ Returns("final_exit", <<>>, generic_final_exit)

DomainsInit ==
    /\ pc = "returned"
    /\ \E rc \in RetCodes : Returns("domains_init", <<>>, generic_domains_init(rc))

TlbrFlushLimit ==
    /\ pc = "returned"
    /\ \E limit \in FlushLimits :
        Returns("get_tlbr_flush_limit", <<>>, generic_tlbr_flush_limit(limit))

SystemResetCheck ==
    /\ pc = "returned"
    /\ \E reset_type \in ResetTypes, reset_reason \in ResetReasons, rc \in RetCodes :
        Returns("system_reset_check", <<reset_type, reset_reason>>,
                generic_system_reset_check(reset_type, reset_reason, rc))

SystemReset ==
    /\ pc = "returned"
    /\ \E reset_type \in ResetTypes, reset_reason \in ResetReasons :
        Returns("system_reset", <<reset_type, reset_reason>>,
                generic_system_reset(reset_type, reset_reason))

\* domains_root_regions: the table is rewritten and its address returned
GetMemRegions ==
    /\ pc = "returned"
    /\ root_memregs' = get_mem_regions(root_memregs)
    /\ op' = [name |-> "domains_root_regions", args |-> <<>>]
    /\ calls' = <<>>
    /\ ret' = 0
    /\ UNCHANGED <<inputs, generic_plat, generic_plat_match, generic_hart_index2id,
                   platform, beyond_table, locals>>

Next ==
    \/ FwInitRoot
    \/ FwInitModel
    \/ FwInitWalk
    \/ FwInitReturn
    \/ FwInitFail
    \/ EarlyInit
    \/ FinalInit
    \/ EarlyExit
    \/ FinalExit
    \/ DomainsInit
    \/ TlbrFlushLimit
    \/ SystemResetCheck
    \/ SystemReset
    \/ GetMemRegions

Spec == Init /\ [][Next]_vars

(***************************************************************************)
(* What the claims speak of.                                                *)
(***************************************************************************)
\* the hart ids of the cpu subnodes that parse and fit a hart mask, in
\* traversal order
AcceptedNode(n) == n.rc = 0 /\ n.hartid < SBI_HARTMASK_MAX_BITS
NodeId(n) == n.hartid
RECURSIVE MapIds(_)
MapIds(nodes) == IF nodes = <<>> THEN <<>>
                 ELSE <<NodeId(Head(nodes))>> \o MapIds(Tail(nodes))
DiscoveredIds == MapIds(SelectSeq(fdt.cpus, AcceptedNode))

\* the array platform.hart_index2id points to
PublishedTable == IF platform.hart_index2id = "U540_hart_index2id"
                  THEN U540_hart_index2id
                  ELSE generic_hart_index2id

\* C1: whenever fw_platform_init has returned, platform.hart_count is at most
\* SBI_HARTMASK_MAX_BITS, and the walk never stores to generic_hart_index2id
\* at an index >= SBI_HARTMASK_MAX_BITS.
C1_HartCountBounded ==
    /\ pc = "returned" => platform.hart_count <= SBI_HARTMASK_MAX_BITS
    /\ hart_count <= SBI_HARTMASK_MAX_BITS
    /\ beyond_table = <<>>

\* C4: when fw_platform_init returns, entries 0 .. platform.hart_count-1 of
\* generic_hart_index2id are the hart ids of the accepted subnodes of /cpus in
\* traversal order, and platform.hart_count is their number.
C4_TableInTraversalOrder ==
    pc = "returned" =>
        /\ platform.hart_count = Len(DiscoveredIds)
        /\ \A i \in 0 .. platform.hart_count - 1 :
                /\ i \in DOMAIN generic_hart_index2id
                /\ generic_hart_index2id[i] = DiscoveredIds[i + 1]

\* C10: after fw_platform_init returns, every index below platform.hart_count
\* is within the array platform.hart_index2id points to, and the entry there
\* is the hart id discovered at that position, in either build.
C10_DescriptorConsistent ==
    pc = "returned" =>
        \A i \in 0 .. platform.hart_count - 1 :
            /\ i \in DOMAIN PublishedTable
            /\ PublishedTable[i] = DiscoveredIds[i + 1]

\* the overrides whose match table is set and matches the tree
TableMatches(t) ==
    t # NULL /\ \E i \in DOMAIN MatchTableMem[t] : MatchTableMem[t][i] \in fdt.compat
Candidates == {p \in DOMAIN special_platforms :
                    TableMatches(special_platforms[p].match_table)}
Least(S) == CHOOSE x \in S : \A y \in S : x <= y
FirstEntry(t) == Least({i \in DOMAIN MatchTableMem[t] : MatchTableMem[t][i] \in fdt.compat})
LookupDone == pc \in {"model", "walk", "returned"} \/ (pc = "fail" /\ fdt.has_root)

C2_Selection ==
    /\ ~LookupDone => generic_plat = NULL /\ generic_plat_match = NoMatch
    /\ LookupDone /\ Candidates = {} =>
            generic_plat = NULL /\ generic_plat_match = NoMatch
    /\ LookupDone /\ Candidates # {} =>
            /\ generic_plat = Least(Candidates)
            /\ generic_plat_match =
                    [table |-> special_platforms[generic_plat].match_table,
                     entry |-> FirstEntry(special_platforms[generic_plat].match_table)]
    /\ generic_plat = NULL => \A i \in DOMAIN calls : calls[i].plat = NULL

\* C2: after fw_platform_lookup_special, generic_plat is NULL when no entry of
\* special_platforms has a match table that matches the tree, and otherwise
\* the first entry with a non-null matching table, generic_plat_match being
\* the entry of that table that matched; with generic_plat NULL an operation
\* calls no override callback; and no operation of platform_ops changes
\* generic_plat or generic_plat_match.
C2_OneOverride ==
    /\ []C2_Selection
    /\ [][pc = "returned" => UNCHANGED <<generic_plat, generic_plat_match>>]_vars

\* a second override is selected because the first one's table does not match
C2_Witness ==
    /\ pc = "returned"
    /\ Len(special_platforms) >= 2
    /\ special_platforms[1].match_table # NULL
    /\ TableMatches(special_platforms[2].match_table)
    /\ generic_plat = 2
    /\ op.name = "system_reset"
    /\ calls # <<>>

C3_Outcomes ==
    /\ pc \in {"entry", "model", "walk", "fail", "returned"}
    /\ pc = "fail" =>
            /\ ~(fdt.has_root /\ fdt.has_cpus)
            /\ fw_ret = NULL
    /\ ~(fdt.has_root /\ fdt.has_cpus) =>
            /\ pc \in {"entry", "model", "fail"}
            /\ platform.hart_count = SBI_HARTMASK_MAX_BITS
    /\ pc = "returned" =>
            /\ fdt.has_root /\ fdt.has_cpus
            /\ fw_ret = arg1
    /\ pc \in {"entry", "model", "walk"} =>
            ENABLED (FwInitRoot \/ FwInitModel \/ FwInitWalk \/ FwInitReturn)

\* C3: fw_platform_init ends in one of two ways: without a root node or
\* without /cpus it reaches the wfi loop and stays there, having returned
\* nothing and never assigned platform.hart_count; otherwise it returns, and
\* what it returns is arg1.
C3_TwoOutcomes ==
    /\ []C3_Outcomes
    /\ [][pc = "fail" => pc' = "fail" /\ UNCHANGED platform]_vars

\* it returned an FDT that sits at the other address, carries a model string
\* and selects the override
C3_Witness ==
    /\ pc = "returned"
    /\ arg1 = AddrSpace - 2
    /\ fw_ret = arg1
    /\ fdt.has_model
    /\ generic_plat # NULL

\* the positions of calls at which fn was called, as an override's callback
\* (by_plat) or as a library function
Pos(fn, by_plat) ==
    {i \in DOMAIN calls : calls[i].fn = fn /\ (calls[i].plat # NULL) = by_plat}
LastCall == calls[Len(calls)]

\* C5: system_reset, system_reset_check and get_tlbr_flush_limit call only the
\* selected override's callback, with the recorded match, and return its
\* result when the override has that callback; otherwise they use exactly the
\* default (fdt_system_reset, fdt_system_reset_check, the default limit).
C5_OverridePrecedence ==
    /\ op.name = "system_reset" =>
            calls = IF HasCallback(generic_plat, "system_reset")
                    THEN <<PlatCall(generic_plat, "system_reset", generic_plat_match,
                                    op.args, 0)>>
                    ELSE <<LibCall("fdt_system_reset", op.args, 0)>>
    /\ op.name = "system_reset_check" =>
            calls = IF HasCallback(generic_plat, "system_reset_check")
                    THEN <<PlatCall(generic_plat, "system_reset_check",
                                    generic_plat_match, op.args, ret)>>
                    ELSE <<LibCall("fdt_system_reset_check", op.args, ret)>>
    /\ op.name = "get_tlbr_flush_limit" =>
            IF HasCallback(generic_plat, "tlbr_flush_limit")
            THEN calls = <<PlatCall(generic_plat, "tlbr_flush_limit",
                                    generic_plat_match, <<>>, ret)>>
            ELSE calls = <<>> /\ ret = SBI_PLATFORM_TLB_RANGE_FLUSH_LIMIT_DEFAULT

\* system_reset went to the callback of an override that is not the first of
\* the list
C5_Witness ==
    /\ op.name = "system_reset"
    /\ generic_plat = 2
    /\ HasCallback(generic_plat, "system_reset")
    /\ Len(calls) = 1
    /\ calls[1].plat = generic_plat
    /\ calls[1].match = generic_plat_match

Populated == root_memregs[ROOT_ALL_REGION].order # 0

\* C6: after any call of get_mem_regions the firmware and EDK2 entries have a
\* base that is a multiple of 2^order, and [base, base + 2^order) contains the
\* image [PcdFwStartAddress, PcdFwEndAddress).
C6_FirmwareRegionsContain ==
    Populated =>
        \A r \in {ROOT_FW_REGION, ROOT_EDK2_REGION} :
            /\ root_memregs[r].base % Pow2(root_memregs[r].order) = 0
            /\ root_memregs[r].base <= PcdFwStartAddress
            /\ PcdFwEndAddress <= root_memregs[r].base + Pow2(root_memregs[r].order)

\* C7: once get_mem_regions has filled root_memregs, no later step, a further
\* call of get_mem_regions included, changes any entry of it.
C7_PopulatedOnce == [][Populated => root_memregs' = root_memregs]_vars

\* C8: generic_final_init calls the override's final_init first and returns
\* its nonzero result with nothing else done; on warm boot it does no fixup
\* and no pmp_set and returns 0; on cold boot fdt_cpu_fixup, fdt_fixups and
\* fdt_domain_fixup run in that order before the override's fdt_fixup, and
\* pmp_set of entry 0 over the firmware range comes last, and only if the
\* override's fdt_fixup, when there is one, returned 0.
C8_FinalInitOrder ==
    op.name = "final_init" =>
        LET cold == op.args = <<1>>
            has_final == HasCallback(generic_plat, "final_init")
            has_fixup == HasCallback(generic_plat, "fdt_fixup")
            failed == has_final /\ calls[1].rc # 0
            Fixups == {"fdt_cpu_fixup", "fdt_fixups", "fdt_domain_fixup", "fdt_fixup",
                       "pmp_set"}
        IN  /\ has_final =>
                    /\ calls # <<>>
                    /\ calls[1] = PlatCall(generic_plat, "final_init",
                                           generic_plat_match, op.args, calls[1].rc)
            /\ Pos("final_init", TRUE) = IF has_final THEN {1} ELSE {}
            /\ failed => Len(calls) = 1 /\ ret = calls[1].rc
            /\ ~failed /\ ~cold =>
                    /\ ret = 0
                    /\ \A i \in DOMAIN calls : calls[i].fn \notin Fixups
            /\ ~failed /\ cold =>
                    /\ \E a, b, c \in DOMAIN calls :
                            /\ a < b /\ b < c
                            /\ Pos("fdt_cpu_fixup", FALSE) = {a}
                            /\ Pos("fdt_fixups", FALSE) = {b}
                            /\ Pos("fdt_domain_fixup", FALSE) = {c}
                            /\ \A d \in Pos("fdt_fixup", TRUE) : c < d
                    /\ Cardinality(Pos("fdt_fixup", TRUE)) = IF has_fixup THEN 1 ELSE 0
                    /\ \A d \in Pos("fdt_fixup", TRUE) :
                            calls[d].match = generic_plat_match
                    /\ IF \E d \in Pos("fdt_fixup", TRUE) : calls[d].rc # 0
                       THEN Pos("pmp_set", FALSE) = {}
                       ELSE /\ Pos("pmp_set", FALSE) = {Len(calls)}
                            /\ LastCall.args = <<0, scratch.fw_start,
                                                 log2roundup(scratch.fw_size)>>
                            /\ ret = 0

\* a cold boot on which both callbacks of the override ran and returned 0, so
\* that pmp_set followed them
C8_Witness ==
    /\ op.name = "final_init"
    /\ op.args = <<1>>
    /\ HasCallback(generic_plat, "final_init")
    /\ HasCallback(generic_plat, "fdt_fixup")
    /\ Len(calls) = 6
    /\ LastCall.fn = "pmp_set"
    /\ ret = 0

\* C9: generic_early_init returns the nonzero result of the override's
\* early_init without calling fdt_reset_init; otherwise it calls
\* fdt_reset_init exactly when cold_boot is true and returns its result, and
\* returns 0 on warm boot.
C9_EarlyInit ==
    op.name = "early_init" =>
        LET cold == op.args = <<1>>
            has == HasCallback(generic_plat, "early_init")
            failed == has /\ calls[1].rc # 0
        IN  /\ has =>
                    /\ calls # <<>>
                    /\ calls[1] = PlatCall(generic_plat, "early_init",
                                           generic_plat_match, op.args, calls[1].rc)
            /\ Pos("early_init", TRUE) = IF has THEN {1} ELSE {}
            /\ failed => ret = calls[1].rc /\ Pos("fdt_reset_init", FALSE) = {}
            /\ ~failed /\ cold =>
                    /\ Pos("fdt_reset_init", FALSE) = {Len(calls)}
                    /\ ret = LastCall.rc
            /\ ~failed /\ ~cold =>
                    /\ Pos("fdt_reset_init", FALSE) = {}
                    /\ ret = 0

\* a cold boot on which the override's early_init returned 0 and
\* fdt_reset_init failed
C9_Witness ==
    /\ op.name = "early_init"
    /\ op.args = <<1>>
    /\ HasCallback(generic_plat, "early_init")
    /\ Len(calls) = 2
    /\ calls[1].rc = 0
    /\ LastCall.fn = "fdt_reset_init"
    /\ ret = -1

\* the bytes of platform.name up to its first terminator, if it has one
NameTerminated == \E i \in DOMAIN platform.name : platform.name[i] = NUL

\* C11: platform.name is a NUL-terminated string within its capacity: without
\* a model property it stays "Generic"; with one, whatever its length, the
\* copy stays inside the sizeof(platform.name) bytes of the buffer and leaves
\* a terminator in it.
C11_NameTerminated ==
    /\ DOMAIN platform.name = 0 .. NameSize - 1
    /\ ~fdt.has_model => platform.name = GenericName
    /\ NameTerminated

====
